---- MODULE Spec2Model ----
(***************************************************************************)
(* helm2bundle: reads a helm chart tarball, extracts Chart.yaml and        *)
(* values.yaml, and writes apb.yml and Dockerfile to the working           *)
(* directory.  The model follows src/helm2bundle.go: one run of main is a  *)
(* sequence of steps (argument validation, existence check, archive scan,  *)
(* the two writes); the archive and the working directory are the          *)
(* environment the run starts in.                                          *)
(***************************************************************************)
EXTENDS Integers, Sequences, FiniteSets, TLC

(***************************************************************************)
(* Bounds of the model.                                                    *)
(***************************************************************************)
\* longest entry stream of an archive
MaxLen == 3
\* number of runs in succession (specification SpecRerun)
MaxRuns == 2

(***************************************************************************)
(* Constants of the program.                                               *)
(***************************************************************************)
apbYml == "apb.yml"
dockerfile == "Dockerfile"
ChartPattern == <<"*", "Chart.yaml">>
ValuesPattern == <<"*", "values.yaml">>
ErrChartNotFound == "Chart.yaml not found in archive"
ErrIncomplete == "Could not find both Chart.yaml and values.yaml"
HintValues == "could not get values from helm chart"
HintRender == "could not render template"
HintExecute == "could not execute command"
HintForce == "use --force to overwrite existing Dockerfile and/or apb.yml"

\* errors that come from the operating system or the libraries
ErrOpen == "open: no such file or directory"
ErrGzip == "gzip: invalid header"
ErrTar == "archive/tar: invalid tar header"
ErrRead == "unexpected EOF"
ErrYaml == "yaml: unmarshal error"
ErrStat == "stat: permission denied"
ErrCreate == "open: permission denied"
ErrWrite == "write: no space left on device"
ErrArgs == "accepts 1 arg(s)"
NoErr == "none"

(***************************************************************************)
(* Entry bodies.  A body is a sequence of lines; a line is a pair          *)
(* <<key, value>>.  A line whose key is "@" is not valid YAML ('@' is a    *)
(* reserved indicator and cannot start a plain scalar).                    *)
(***************************************************************************)
BadLine == <<"@", "">>
ChartRedis == << <<"name", "redis">>, <<"description", "kv store">> >>
ChartMysql == << <<"version", "1.0">>, <<"name", "mysql">> >>
ChartNoName == << <<"description", "kv store">> >>
ChartBad == << <<"name", "redis">>, BadLine >>
ValuesA == << <<"replicas", "1">> >>
ValuesB == << BadLine, <<"image", "x">> >>
Empty == << >>

\* The entries an archive is built from: a path (its segments) and a body.
Entries ==
    { [name |-> <<"redis", "Chart.yaml">>, body |-> ChartRedis],
      [name |-> <<"mysql", "Chart.yaml">>, body |-> ChartMysql],
      [name |-> <<"redis", "Chart.yaml">>, body |-> ChartNoName],
      [name |-> <<"redis", "Chart.yaml">>, body |-> ChartBad],
      [name |-> <<"redis", "values.yaml">>, body |-> ValuesA],
      [name |-> <<"redis", "values.yaml">>, body |-> ValuesB],
      [name |-> <<"redis", "values.yaml">>, body |-> Empty],
      [name |-> <<"redis", "charts", "Chart.yaml">>, body |-> ChartMysql] }

RECURSIVE SeqsUpTo(_, _)
SeqsUpTo(S, n) ==
    IF n = 0 THEN { << >> }
    ELSE LET shorter == SeqsUpTo(S, n - 1)
         IN  shorter \cup { Append(s, e) : s \in shorter, e \in S }

\* How the entry stream ends: cleanly, with a damaged header after the last
\* entry, or in the middle of the last entry's body.
Ends == {"eof", "badheader", "truncated"}

\* The file the argument names: absent, not gzip data, or a gzipped tar.
Tarballs ==
    { [kind |-> "missing", entries |-> << >>, end |-> "eof"],
      [kind |-> "notgzip", entries |-> << >>, end |-> "eof"] }
    \cup { [kind |-> "tgz", entries |-> es, end |-> e] :
             es \in SeqsUpTo(Entries, MaxLen), e \in Ends }

Filename == "redis-1.1.12.tgz"
ArgLists == { << >>, <<Filename>>, <<Filename, "extra">> }

VARIABLES
    args,       \* positional arguments of the command line
    forceArg,   \* --force
    tarball,    \* the file the argument names
    fs,         \* working directory: apb.yml and Dockerfile
    pc,         \* position of the run
    pos,        \* entries of the stream consumed by tr.Next
    chart,      \* getTarValues: var chart Chart
    values,     \* getTarValues: var values string
    tarValues,  \* the TarValues getTarValues returned
    stdout,     \* lines printed
    exitCode,   \* process exit status (-1 while running)
    handles,    \* open file handles
    touched,    \* output files created or truncated by this run
    calls,      \* the functions main has called, in order
    runs,       \* number of the current run
    fsStart,    \* working directory when the current run started
    prevExit    \* exit status of the previous run (-1 if none)

vars == <<args, forceArg, tarball, fs, pc, pos, chart, values, tarValues,
          stdout, exitCode, handles, touched, calls, runs, fsStart, prevExit>>


(***************************************************************************)
(* Pure functions of the program.                                          *)
(***************************************************************************)

\* path.Match comparing the file names only
Match_Basename(pattern, name) ==
    /\ Len(name) > 0
    /\ name[Len(name)] = pattern[Len(pattern)]

\* path.Match(pattern, name): '*' matches any run of non-separator
\* characters, so pattern and name must have the same number of segments.
Match(pattern, name) ==
    /\ Len(name) = Len(pattern)
    /\ \A i \in 1..Len(pattern) : pattern[i] = "*" \/ pattern[i] = name[i]

\* yaml.Unmarshal into a Chart: the value of a key, "" when the key is absent;
\* keys the struct does not have are ignored.
Field(body, key) ==
    IF \E i \in 1..Len(body) : body[i][1] = key
    THEN body[CHOOSE i \in 1..Len(body) : body[i][1] = key][2]
    ELSE ""

ValidYaml(body) == \A i \in 1..Len(body) : body[i][1] # "@"

\* parseChart: the zero Chart and an error when the body is not YAML.
parseChart(body) ==
    IF ValidYaml(body)
    THEN [err |-> NoErr,
          chart |-> [Name |-> Field(body, "name"),
                     Description |-> Field(body, "description")]]
    ELSE [err |-> ErrYaml, chart |-> [Name |-> "", Description |-> ""]]

ZeroChart == [Name |-> "", Description |-> ""]
ZeroTarValues ==
    [Name |-> "", Description |-> "", TarfileName |-> "", Values |-> << >>]

\* the exit test with || for &&
Complete_Either(v, c) == Len(v) > 0 \/ Len(c.Name) > 0

\* the loop's exit test and the test after the loop
Complete(v, c) == Len(v) > 0 /\ Len(c.Name) > 0

\* NewAPB with the plan's parameter list left empty
NewAPB_NoParameter(v) ==
    [Version |-> "1.0",
     Name |-> v.Name \o "-apb",
     Description |-> v.Description,
     Bindable |-> FALSE,
     Async |-> "optional",
     Metadata |-> [displayName |-> v.Name \o " (helm bundle)",
                   iconClass |-> "icon-" \o v.Name],
     Plans |-> << [Name |-> "default",
                   Description |-> "Deploys helm chart " \o v.Name,
                   Free |-> TRUE,
                   Metadata |-> << >>,
                   Parameters |-> << >>] >>]

\* NewAPB naming the bundle by the chart name alone
NewAPB_NoSuffix(v) ==
    [NewAPB_NoParameter(v) EXCEPT
       !.Name = v.Name,
       !.Plans = << [Name |-> "default",
                     Description |-> "Deploys helm chart " \o v.Name,
                     Free |-> TRUE,
                     Metadata |-> << >>,
                     Parameters |-> << [Name |-> "values",
                                        Title |-> "Values",
                                        Type |-> "string",
                                        DisplayType |-> "textarea",
                                        Default |-> v.Values] >>] >>]

\* NewAPB
NewAPB(v) ==
    [Version |-> "1.0",
     Name |-> v.Name \o "-apb",
     Description |-> v.Description,
     Bindable |-> FALSE,
     Async |-> "optional",
     Metadata |-> [displayName |-> v.Name \o " (helm bundle)",
                   iconClass |-> "icon-" \o v.Name],
     Plans |-> << [Name |-> "default",
                   Description |-> "Deploys helm chart " \o v.Name,
                   Free |-> TRUE,
                   Metadata |-> << >>,
                   Parameters |-> << [Name |-> "values",
                                      Title |-> "Values",
                                      Type |-> "string",
                                      DisplayType |-> "textarea",
                                      Default |-> v.Values] >>] >>]

\* yaml.Marshal of an APB: the document keyed by the structs' yaml tags.
MarshalParameter(p) ==
    [name |-> p.Name, title |-> p.Title, type |-> p.Type,
     display_type |-> p.DisplayType, default |-> p.Default]

MarshalPlan(p) ==
    [name |-> p.Name, description |-> p.Description, free |-> p.Free,
     metadata |-> p.Metadata,
     parameters |-> [i \in 1..Len(p.Parameters) |->
                        MarshalParameter(p.Parameters[i])]]

Marshal(apb) ==
    [version |-> apb.Version, name |-> apb.Name,
     description |-> apb.Description, bindable |-> apb.Bindable,
     async |-> apb.Async, metadata |-> apb.Metadata,
     plans |-> [i \in 1..Len(apb.Plans) |-> MarshalPlan(apb.Plans[i])]]

\* dockerfileTemplate executed on a TarValues, line by line
Render(v) ==
    << "FROM ansibleplaybookbundle/helm-bundle-base",
       "",
       "LABEL com.redhat.apb.spec=",
       "",
       "",
       "COPY " \o v.TarfileName \o " /opt/chart.tgz",
       "",
       "ENTRYPOINT [entrypoint.sh]" >>


(***************************************************************************)
(* The working directory.  A file is absent or holds data: apb.yml a       *)
(* sequence of written chunks (a marshalled document, whole or cut short), *)
(* Dockerfile a sequence of lines.                                         *)
(***************************************************************************)
Files == {apbYml, dockerfile}
Absent == [exists |-> FALSE, data |-> << >>]

OldValues ==
    [Name |-> "old", Description |-> "", TarfileName |-> "old-0.1.tgz",
     Values |-> ValuesB]
OldFile(f) ==
    IF f = apbYml
    THEN [exists |-> TRUE,
          data |-> << [doc |-> Marshal(NewAPB(OldValues)), whole |-> TRUE] >>]
    ELSE [exists |-> TRUE, data |-> Render(OldValues)]

\* os.Create that keeps what the file holds (opened without O_TRUNC)
OsCreate_NoTruncate(file) == [exists |-> TRUE, data |-> file.data]

\* os.Create: the file exists afterwards and is empty
OsCreate(file) == [exists |-> TRUE, data |-> << >>]

\* f.Write / writes of template.Execute: data goes after what the file holds
OsWrite(file, data) == [file EXCEPT !.data = file.data \o data]

\* a return without the deferred Close
Close_Leak(hs, h) == hs

\* the deferred f.Close() of the function that opened h
Close(hs, h) == hs \ {h}

\* os.Stat as fileExists uses it: "ok", "notexist" or "error"
Stat(dir, f, failing) ==
    IF f = failing THEN "error"
    ELSE IF dir[f].exists THEN "ok" ELSE "notexist"

\* fileExists looking at apb.yml only
fileExists_ApbOnly(dir, failing) ==
    LET a == Stat(dir, apbYml, failing)
    IN  IF a = "ok" THEN [exists |-> TRUE, err |-> NoErr]
        ELSE IF a = "error" THEN [exists |-> FALSE, err |-> ErrStat]
        ELSE [exists |-> FALSE, err |-> NoErr]

\* fileExists: apb.yml is looked at first, then Dockerfile
fileExists(dir, failing) ==
    LET a == Stat(dir, apbYml, failing)
        d == Stat(dir, dockerfile, failing)
    IN  IF a = "ok" THEN [exists |-> TRUE, err |-> NoErr]
        ELSE IF a = "error" THEN [exists |-> FALSE, err |-> ErrStat]
        ELSE IF d = "ok" THEN [exists |-> TRUE, err |-> NoErr]
        ELSE IF d = "error" THEN [exists |-> FALSE, err |-> ErrStat]
        ELSE [exists |-> FALSE, err |-> NoErr]

(***************************************************************************)
(* Initial states: a command line, an archive and a working directory.     *)
(***************************************************************************)
Dirs == { [f \in Files |-> IF f \in present THEN OldFile(f) ELSE Absent] :
            present \in SUBSET Files }

Init ==
    /\ args = << >>
    /\ forceArg = FALSE
    /\ tarball \in Tarballs
    /\ fs \in Dirs
    /\ fsStart = fs
    /\ pc = "main"
    /\ pos = 0
    /\ chart = ZeroChart
    /\ values = << >>
    /\ tarValues = ZeroTarValues
    /\ stdout = << >>
    /\ exitCode = -1
    /\ handles = {}
    /\ touched = {}
    /\ calls = << >>
    /\ runs = 1
    /\ prevExit = -1

\* fmt.Println(err.Error()); fmt.Println(hint); os.Exit(1)
Exit1(err, hint) ==
    /\ stdout' = stdout \o <<err, hint>>
    /\ exitCode' = 1
    /\ pc' = "exit"

env == <<tarball, runs, fsStart, prevExit>>
cmd == <<args, forceArg>>
scan == <<pos, chart, values, tarValues>>

(***************************************************************************)
(* main                                                                    *)
(***************************************************************************)

\* rootCmd.Execute parses the command line: --force sets forceArg, and with
\* cobra.ExactArgs(1) a wrong number of arguments is an error of Execute and
\* Run is not called.
Execute ==
    /\ pc = "main"
    /\ args' \in ArgLists
    /\ forceArg' \in BOOLEAN
    /\ IF Len(args') = 1
       THEN /\ pc' = "run"
            /\ UNCHANGED <<stdout, exitCode>>
       ELSE Exit1(ErrArgs, HintExecute)
    /\ UNCHANGED <<env, scan, fs, handles, touched, calls>>

\* Run with --force: the existence check is skipped.
RunForce ==
    /\ pc = "run"
    /\ forceArg
    /\ pc' = "getTarValues"
    /\ UNCHANGED <<env, cmd, scan, fs, stdout, exitCode, handles, touched, calls>>

\* Run without --force that prints the hint and goes on (no os.Exit)
RunCheck_NoExit ==
    /\ pc = "run"
    /\ ~forceArg
    /\ \E failing \in Files \cup {"none"} :
         LET r == fileExists(fs, failing)
         IN  IF r.err # NoErr THEN Exit1(r.err, HintValues)
             ELSE /\ stdout' = IF r.exists THEN Append(stdout, HintForce)
                                ELSE stdout
                  /\ pc' = "getTarValues"
                  /\ UNCHANGED exitCode
    /\ calls' = Append(calls, "fileExists")
    /\ UNCHANGED <<env, cmd, scan, fs, handles, touched>>

\* Run without --force: fail if one of the files already exists.
RunCheck ==
    /\ pc = "run"
    /\ ~forceArg
    /\ \E failing \in Files \cup {"none"} :
         LET r == fileExists(fs, failing)
         IN  IF r.err # NoErr THEN Exit1(r.err, HintValues)
             ELSE IF r.exists
             THEN /\ stdout' = Append(stdout, HintForce)
                  /\ exitCode' = 1
                  /\ pc' = "exit"
             ELSE /\ pc' = "getTarValues"
                  /\ UNCHANGED <<stdout, exitCode>>
    /\ calls' = Append(calls, "fileExists")
    /\ UNCHANGED <<env, cmd, scan, fs, handles, touched>>

(***************************************************************************)
(* getTarValues                                                            *)
(***************************************************************************)

\* os.Open(filename); defer file.Close()
OpenArchive ==
    /\ pc = "getTarValues"
    /\ calls' = Append(calls, "getTarValues")
    /\ IF tarball.kind = "missing"
       THEN /\ Exit1(ErrOpen, HintValues)
            /\ UNCHANGED handles
       ELSE /\ handles' = handles \cup {args[1]}
            /\ pc' = "gzip"
            /\ UNCHANGED <<stdout, exitCode>>
    /\ UNCHANGED <<env, cmd, scan, fs, touched>>

\* gzip.NewReader(file); tar.NewReader; var chart Chart; var values string
NewReader ==
    /\ pc = "gzip"
    /\ IF tarball.kind = "notgzip"
       THEN /\ Exit1(ErrGzip, HintValues)
            /\ handles' = Close(handles, args[1])
            /\ UNCHANGED <<pos, chart, values>>
       ELSE /\ pc' = "scan"
            /\ pos' = 0
            /\ chart' = ZeroChart
            /\ values' = << >>
            /\ UNCHANGED <<stdout, exitCode, handles>>
    /\ UNCHANGED <<env, cmd, tarValues, fs, touched, calls>>

\* tr.Next() when no entry is left: io.EOF, or an error of the tar reader
ScanEnd ==
    /\ pc = "scan"
    /\ pos = Len(tarball.entries)
    /\ IF tarball.end = "eof"
       THEN Exit1(ErrChartNotFound, HintValues)
       ELSE Exit1(ErrTar, HintValues)
    /\ handles' = Close(handles, args[1])
    /\ UNCHANGED <<env, cmd, scan, fs, touched, calls>>

\* one pass of the loop over an entry, and what follows the loop on break
ScanEntry ==
    /\ pc = "scan"
    /\ pos < Len(tarball.entries)
    /\ LET hdr == tarball.entries[pos + 1]
           cut == pos + 1 = Len(tarball.entries) /\ tarball.end = "truncated"
           chartMatch == Match(ChartPattern, hdr.name)
           valuesMatch == Match(ValuesPattern, hdr.name)
           parsed == parseChart(hdr.body)
           newChart == IF chartMatch THEN parsed.chart ELSE chart
           newValues == IF valuesMatch THEN hdr.body ELSE values
       IN  IF (chartMatch \/ valuesMatch) /\ cut
           THEN /\ Exit1(ErrRead, HintValues)
                /\ handles' = Close(handles, args[1])
                /\ UNCHANGED scan
           ELSE IF chartMatch /\ parsed.err # NoErr
           THEN /\ Exit1(parsed.err, HintValues)
                /\ handles' = Close(handles, args[1])
                /\ UNCHANGED scan
           ELSE IF ~Complete(newValues, newChart)
           THEN /\ pos' = pos + 1
                /\ chart' = newChart
                /\ values' = newValues
                /\ UNCHANGED <<pc, tarValues, stdout, exitCode, handles>>
           ELSE \* break
                /\ pos' = pos + 1
                /\ chart' = newChart
                /\ values' = newValues
                /\ handles' = Close(handles, args[1])
                /\ IF Complete(newValues, newChart)
                   THEN /\ tarValues' = [Name |-> newChart.Name,
                                         Description |-> newChart.Description,
                                         TarfileName |-> args[1],
                                         Values |-> newValues]
                        /\ pc' = "writeApbYaml"
                        /\ UNCHANGED <<stdout, exitCode>>
                   ELSE /\ Exit1(ErrIncomplete, HintValues)
                        /\ UNCHANGED tarValues
    /\ UNCHANGED <<env, cmd, fs, touched, calls>>

(***************************************************************************)
(* writeApbYaml                                                            *)
(***************************************************************************)

\* writeApbYaml whose error main does not look at
CreateApbYaml_IgnoreError ==
    /\ pc = "writeApbYaml"
    /\ calls' = Append(calls, "writeApbYaml")
    /\ \E ok \in BOOLEAN :
         IF ok
         THEN /\ fs' = [fs EXCEPT ![apbYml] = OsCreate(fs[apbYml])]
              /\ handles' = handles \cup {apbYml}
              /\ touched' = touched \cup {apbYml}
              /\ pc' = "writeApbYaml.Write"
         ELSE /\ pc' = "writeDockerfile"
              /\ UNCHANGED <<fs, handles, touched>>
    /\ UNCHANGED <<env, cmd, scan, stdout, exitCode>>

\* NewAPB, yaml.Marshal, os.Create(apbYml); defer f.Close()
CreateApbYaml ==
    /\ pc = "writeApbYaml"
    /\ calls' = Append(calls, "writeApbYaml")
    /\ \E ok \in BOOLEAN :
         IF ok
         THEN /\ fs' = [fs EXCEPT ![apbYml] = OsCreate(fs[apbYml])]
              /\ handles' = handles \cup {apbYml}
              /\ touched' = touched \cup {apbYml}
              /\ pc' = "writeApbYaml.Write"
              /\ UNCHANGED <<stdout, exitCode>>
         ELSE /\ Exit1(ErrCreate, HintRender)
              /\ UNCHANGED <<fs, handles, touched>>
    /\ UNCHANGED <<env, cmd, scan>>

\* f.Write(data) and the return, which closes f
WriteApbYaml ==
    /\ pc = "writeApbYaml.Write"
    /\ LET data == Marshal(NewAPB(tarValues))
       IN  \E ok \in BOOLEAN :
             IF ok
             THEN /\ fs' = [fs EXCEPT ![apbYml] =
                              OsWrite(@, << [doc |-> data, whole |-> TRUE] >>)]
                  /\ pc' = "writeDockerfile"
                  /\ UNCHANGED <<stdout, exitCode>>
             ELSE /\ \E n \in 0..1 :
                       fs' = [fs EXCEPT ![apbYml] =
                                OsWrite(@, SubSeq(<< [doc |-> data,
                                                      whole |-> FALSE] >>, 1, n))]
                  /\ Exit1(ErrWrite, HintRender)
    /\ handles' = Close(handles, apbYml)
    /\ UNCHANGED <<env, cmd, scan, touched, calls>>

(***************************************************************************)
(* writeDockerfile                                                         *)
(***************************************************************************)

\* template.New(dockerfile).Parse(dockerfileTemplate), os.Create(dockerfile);
\* defer f.Close()
CreateDockerfile ==
    /\ pc = "writeDockerfile"
    /\ calls' = Append(calls, "writeDockerfile")
    /\ \E ok \in BOOLEAN :
         IF ok
         THEN /\ fs' = [fs EXCEPT ![dockerfile] = OsCreate(fs[dockerfile])]
              /\ handles' = handles \cup {dockerfile}
              /\ touched' = touched \cup {dockerfile}
              /\ pc' = "writeDockerfile.Execute"
              /\ UNCHANGED <<stdout, exitCode>>
         ELSE /\ Exit1(ErrCreate, HintRender)
              /\ UNCHANGED <<fs, handles, touched>>
    /\ UNCHANGED <<env, cmd, scan>>

\* t.Execute(f, v) and the return, which closes f; then Run and main return
ExecuteTemplate ==
    /\ pc = "writeDockerfile.Execute"
    /\ LET text == Render(tarValues)
       IN  \E ok \in BOOLEAN :
             IF ok
             THEN /\ fs' = [fs EXCEPT ![dockerfile] = OsWrite(@, text)]
                  /\ pc' = "exit"
                  /\ exitCode' = 0
                  /\ UNCHANGED stdout
             ELSE /\ \E n \in 0..(Len(text) - 1) :
                       fs' = [fs EXCEPT ![dockerfile] =
                                OsWrite(@, SubSeq(text, 1, n))]
                  /\ Exit1(ErrWrite, HintRender)
    /\ handles' = Close(handles, dockerfile)
    /\ UNCHANGED <<env, cmd, scan, touched, calls>>

(***************************************************************************)
(* Specifications                                                          *)
(***************************************************************************)
Next ==
    \/ Execute
    \/ RunForce
    \/ RunCheck
    \/ OpenArchive
    \/ NewReader
    \/ ScanEnd
    \/ ScanEntry
    \/ CreateApbYaml
    \/ WriteApbYaml
    \/ CreateDockerfile
    \/ ExecuteTemplate

Spec == Init /\ [][Next]_vars

\* After a run that succeeded the tool is started again in the same
\* directory on the same archive.
Rerun ==
    /\ pc = "exit"
    /\ exitCode = 0
    /\ runs < MaxRuns
    /\ runs' = runs + 1
    /\ prevExit' = exitCode
    /\ fsStart' = fs
    /\ args' = << >>
    /\ forceArg' = FALSE
    /\ pc' = "main"
    /\ pos' = 0
    /\ chart' = ZeroChart
    /\ values' = << >>
    /\ tarValues' = ZeroTarValues
    /\ stdout' = << >>
    /\ exitCode' = -1
    /\ touched' = {}
    /\ calls' = << >>
    /\ UNCHANGED <<tarball, fs, handles>>

NextRerun == Next \/ Rerun

SpecRerun == Init /\ [][NextRerun]_vars


(***************************************************************************)
(* Vocabulary of the properties, stated on the archive itself.             *)
(***************************************************************************)
Done == pc = "exit"
Archive == tarball.entries
Printed(m) == \E i \in 1..Len(stdout) : stdout[i] = m
IOFailed == Printed(ErrStat) \/ Printed(ErrCreate) \/ Printed(ErrWrite)
Called(f) == \E i \in 1..Len(calls) : calls[i] = f
NothingThere == \A f \in Files : ~fsStart[f].exists

\* an entry "d/Chart.yaml" resp. "d/values.yaml": one directory, then the name
IsChart(e) == Len(e.name) = 2 /\ e.name[2] = "Chart.yaml"
IsValues(e) == Len(e.name) = 2 /\ e.name[2] = "values.yaml"
Parses(e) == \A k \in 1..Len(e.body) : e.body[k] # BadLine
DeclaredName(e) ==
    LET S == { e.body[k][2] : k \in { j \in 1..Len(e.body) : e.body[j][1] = "name" } }
    IN  IF S = {} THEN "" ELSE CHOOSE x \in S : TRUE

Max0(S) == IF S = {} THEN 0 ELSE CHOOSE x \in S : \A y \in S : y <= x
LastChart(i) == Max0({ j \in 1..i : IsChart(Archive[j]) })
LastValues(i) == Max0({ j \in 1..i : IsValues(Archive[j]) })
NameAt(i) == IF LastChart(i) = 0 THEN "" ELSE DeclaredName(Archive[LastChart(i)])
ValuesAt(i) == IF LastValues(i) = 0 THEN << >> ELSE Archive[LastValues(i)].body
\* after entry i both a non-empty chart name and a non-empty values text are held
HeldAt(i) == NameAt(i) # "" /\ ValuesAt(i) # << >>
Holding == { i \in 1..Len(Archive) : HeldAt(i) }
FirstHeld == LET H == Holding IN CHOOSE i \in H : \A j \in H : i <= j

\* entries 1..i can be read: no chart entry among them fails to parse and the
\* stream is not cut inside entry i
Readable(i) ==
    /\ \A j \in 1..i : IsChart(Archive[j]) => Parses(Archive[j])
    /\ ~(/\ i = Len(Archive)
         /\ tarball.end = "truncated"
         /\ (IsChart(Archive[i]) \/ IsValues(Archive[i])))

HasChart == \E i \in 1..Len(Archive) : IsChart(Archive[i])
HasValues == \E i \in 1..Len(Archive) : IsValues(Archive[i])
Intact == tarball.kind = "tgz" /\ tarball.end = "eof"
\* every chart entry parses to a non-empty name, every values entry is non-empty
WellFormed ==
    /\ \A i \in 1..Len(Archive) :
         IsChart(Archive[i]) => Parses(Archive[i]) /\ DeclaredName(Archive[i]) # ""
    /\ \A i \in 1..Len(Archive) : IsValues(Archive[i]) => Archive[i].body # << >>

\* the manifest in apb.yml, when the file holds exactly one whole document
ManifestWritten ==
    /\ fs[apbYml].exists
    /\ Len(fs[apbYml].data) = 1
    /\ fs[apbYml].data[1].whole
Manifest == fs[apbYml].data[1].doc
\* the Default of the single parameter of the single plan is d
SingleDefaultIs(d) ==
    /\ Len(Manifest.plans) = 1
    /\ Len(Manifest.plans[1].parameters) = 1
    /\ Manifest.plans[1].parameters[1].default = d

AllChartsParse ==
    \A i \in 1..Len(Archive) : IsChart(Archive[i]) => Parses(Archive[i])

(***************************************************************************)
(* C1 as stated: for every intact archive with an entry */Chart.yaml and   *)
(* an entry */values.yaml, whose chart entries are all YAML, a run started *)
(* with no output file present and meeting no I/O error ends with status 0 *)
(* having written exactly apb.yml and Dockerfile, and the Default of the   *)
(* single parameter of the single plan is the content of a values entry of *)
(* the archive.                                                            *)
(***************************************************************************)
C1_AsStated ==
    (Done /\ Len(args) = 1 /\ Intact /\ HasChart /\ HasValues
          /\ AllChartsParse /\ NothingThere /\ ~IOFailed)
    => /\ exitCode = 0
       /\ touched = Files
       /\ ManifestWritten
       /\ \E i \in 1..Len(Archive) :
            IsValues(Archive[i]) /\ SingleDefaultIs(Archive[i].body)

(***************************************************************************)
(* C1 amended: the same for every intact archive with both entries in      *)
(* which every chart entry parses to a non-empty name and every values     *)
(* entry is non-empty; the Default is the content of the values entry read *)
(* last when the scan stopped.                                             *)
(***************************************************************************)
C1_Amended ==
    (Done /\ Len(args) = 1 /\ Intact /\ HasChart /\ HasValues /\ WellFormed
          /\ NothingThere /\ ~IOFailed)
    => /\ exitCode = 0
       /\ touched = Files
       /\ \A f \in Files : fs[f].exists
       /\ ManifestWritten
       /\ SingleDefaultIs(ValuesAt(FirstHeld))

\* a successful run on an archive with two values entries before the chart
C1_Witness ==
    /\ Done /\ Len(args) = 1 /\ Intact /\ WellFormed /\ NothingThere
    /\ exitCode = 0
    /\ Len(Archive) = 3
    /\ IsValues(Archive[1]) /\ IsValues(Archive[2]) /\ IsChart(Archive[3])
    /\ Archive[1].body # Archive[2].body
    /\ ManifestWritten
    /\ SingleDefaultIs(Archive[2].body)

(***************************************************************************)
(* C6: whenever a run has written the manifest, its name field is the name *)
(* of the chart descriptor held when the scan completed (that of the last  *)
(* chart entry read) followed by "-apb".                                   *)
(***************************************************************************)
C6_ManifestName ==
    (Len(args) = 1 /\ apbYml \in touched /\ ManifestWritten)
    => /\ pos \in 1..Len(Archive)
       /\ Manifest.name = NameAt(pos) \o "-apb"
       /\ Manifest.name = chart.Name \o "-apb"

\* the manifest is named after the second of two chart entries
C6_Witness ==
    /\ Done /\ exitCode = 0 /\ apbYml \in touched /\ ManifestWritten
    /\ Len(Archive) = 3
    /\ IsChart(Archive[1]) /\ DeclaredName(Archive[1]) = "redis"
    /\ IsChart(Archive[2]) /\ DeclaredName(Archive[2]) = "mysql"
    /\ Manifest.name = "mysql-apb"


ValidArchive == Intact /\ HasChart /\ HasValues /\ WellFormed

(***************************************************************************)
(* C2: a run without --force in a directory where apb.yml or Dockerfile    *)
(* exists (and os.Stat works) ends with status 1 after printing only the   *)
(* --force hint, having called nothing but fileExists, and leaves both     *)
(* files as they were; a run with --force on a valid archive, meeting no   *)
(* I/O error, ends with status 0 and both files hold the newly generated   *)
(* content, which differs from what was there.                             *)
(***************************************************************************)
C2_Overwrite ==
    /\ (Done /\ Len(args) = 1 /\ ~forceArg /\ ~NothingThere /\ ~Printed(ErrStat))
       => /\ exitCode = 1
          /\ stdout = <<HintForce>>
          /\ calls = <<"fileExists">>
          /\ touched = {}
          /\ fs = fsStart
    /\ (Done /\ Len(args) = 1 /\ forceArg /\ ~NothingThere /\ ValidArchive
             /\ ~IOFailed)
       => /\ exitCode = 0
          /\ touched = Files
          /\ ManifestWritten
          /\ Manifest.name = NameAt(FirstHeld) \o "-apb"
          /\ SingleDefaultIs(ValuesAt(FirstHeld))
          /\ fs[dockerfile].exists
          /\ Len(fs[dockerfile].data) = 8
          /\ fs[dockerfile].data[6] = "COPY " \o args[1] \o " /opt/chart.tgz"
          /\ \A f \in Files : fsStart[f].exists => fs[f] # fsStart[f]

\* only Dockerfile was there, the run was refused and nothing changed
C2_Witness ==
    /\ Done /\ Len(args) = 1 /\ ~forceArg
    /\ fsStart[dockerfile].exists /\ ~fsStart[apbYml].exists
    /\ ValidArchive
    /\ exitCode = 1 /\ stdout = <<HintForce>>
    /\ fs = fsStart /\ ~fs[apbYml].exists

\* both files were there and --force replaced them
C2_WitnessForce ==
    /\ Done /\ Len(args) = 1 /\ forceArg /\ ValidArchive
    /\ \A f \in Files : fsStart[f].exists /\ fs[f] # fsStart[f]
    /\ exitCode = 0

(***************************************************************************)
(* C3: when the scan runs on an intact archive with no entry */Chart.yaml  *)
(* the run ends with status 1 printing "Chart.yaml not found in archive",  *)
(* after the whole stream was consumed; and for any archive with no such   *)
(* entry no output file is created or modified.                            *)
(***************************************************************************)
C3_ChartNotFound ==
    /\ (Done /\ Len(args) = 1 /\ Called("getTarValues") /\ Intact /\ ~HasChart)
       => /\ exitCode = 1
          /\ stdout = <<ErrChartNotFound, HintValues>>
          /\ pos = Len(Archive)
    /\ (Len(args) = 1 /\ tarball.kind = "tgz" /\ ~HasChart)
       => touched = {} /\ fs = fsStart

\* values.yaml and a Chart.yaml two directories deep, but no */Chart.yaml
C3_Witness ==
    /\ Done /\ Intact /\ ~HasChart /\ HasValues
    /\ \E i \in 1..Len(Archive) : Archive[i].name = <<"redis", "charts", "Chart.yaml">>
    /\ Len(Archive) = 3 /\ pos = 3
    /\ Printed(ErrChartNotFound)
    /\ forceArg /\ ~NothingThere /\ fs = fsStart

HasNamedChart ==
    \E i \in 1..Len(Archive) :
        IsChart(Archive[i]) /\ Parses(Archive[i]) /\ DeclaredName(Archive[i]) # ""

(***************************************************************************)
(* C4 as stated: when the scan runs on an intact archive that has a chart  *)
(* entry with a non-empty name and no values entry, or a values entry and  *)
(* no chart entry, the run ends with status 1 printing "Could not find     *)
(* both Chart.yaml and values.yaml" and not "Chart.yaml not found in       *)
(* archive", and writes no output file.                                    *)
(***************************************************************************)
C4_AsStated ==
    (Done /\ Len(args) = 1 /\ Called("getTarValues") /\ Intact /\ AllChartsParse
          /\ (\/ HasNamedChart /\ ~HasValues
              \/ HasValues /\ ~HasChart))
    => /\ exitCode = 1
       /\ Printed(ErrIncomplete)
       /\ ~Printed(ErrChartNotFound)
       /\ touched = {}

\* what the program does in that case, and that the other message is never printed
C4_Observed ==
    /\ ~Printed(ErrIncomplete)
    /\ (Done /\ Len(args) = 1 /\ Called("getTarValues") /\ Intact /\ AllChartsParse
             /\ (\/ HasNamedChart /\ ~HasValues
                 \/ HasValues /\ ~HasChart))
       => /\ exitCode = 1
          /\ Printed(ErrChartNotFound)
          /\ touched = {}

(***************************************************************************)
(* C5 as stated: at the end of every run the output files the run created  *)
(* or truncated are both apb.yml and Dockerfile, or neither.               *)
(***************************************************************************)
C5_AsStated == Done => touched \in {{}, Files}

(***************************************************************************)
(* C5 amended: the output files a run created or truncated are neither,    *)
(* apb.yml alone, or both, never Dockerfile alone: Dockerfile is created   *)
(* only after apb.yml was wholly written.  They are both in every run that *)
(* succeeds, neither in every run that fails before writeApbYaml is        *)
(* called, and apb.yml alone only when writing apb.yml or creating         *)
(* Dockerfile failed.                                                      *)
(***************************************************************************)
C5_Amended ==
    /\ touched \in {{}, {apbYml}, Files}
    /\ dockerfile \in touched => ManifestWritten
    /\ Done /\ exitCode = 0 => touched = Files
    /\ Done /\ ~Called("writeApbYaml") => touched = {}
    /\ Done /\ touched = {apbYml}
       => exitCode = 1 /\ (Printed(ErrWrite) \/ Printed(ErrCreate))

\* apb.yml was written and creating Dockerfile failed
C5_Witness ==
    /\ Done /\ touched = {apbYml} /\ ManifestWritten
    /\ Called("writeDockerfile") /\ Printed(ErrCreate)
    /\ fs[dockerfile] = fsStart[dockerfile]


(***************************************************************************)
(* C7: when the tool is run again with --force after a run that succeeded, *)
(* on the same archive with the same argument, the second run succeeds     *)
(* unless an I/O error stops it, and after it apb.yml and Dockerfile hold  *)
(* what they held after the first run.                                     *)
(***************************************************************************)
C7_Idempotent ==
    (Done /\ runs >= 2 /\ prevExit = 0 /\ Len(args) = 1 /\ forceArg)
    => /\ ~IOFailed => exitCode = 0
       /\ exitCode = 0 => touched = Files /\ fs = fsStart

\* a second run with --force rewrote both files with the same content
C7_Witness ==
    /\ Done /\ runs = 2 /\ prevExit = 0 /\ forceArg /\ exitCode = 0
    /\ touched = Files
    /\ fs = fsStart
    /\ ManifestWritten
    /\ Len(fs[dockerfile].data) = 8

ScanSucceeded == pc = "writeApbYaml" \/ Called("writeApbYaml")

(***************************************************************************)
(* C8: the scan goes on to the next entry only while no position read so   *)
(* far held both a non-empty chart name and a non-empty values text (a     *)
(* chart entry with an empty name does not stop it); it never consumes an  *)
(* entry after the first such position; when it returns successfully it    *)
(* has stopped exactly there, with the name and values held there; and     *)
(* when entries up to that position can be read the scan succeeds whatever *)
(* follows them.                                                           *)
(***************************************************************************)
C8_ScanStop ==
    (Len(args) = 1 /\ tarball.kind = "tgz" /\ Called("getTarValues"))
    => LET H == Holding
           first == FirstHeld
       IN  /\ pos \in 0..Len(Archive)
           /\ pc = "scan" => \A j \in 1..pos : j \notin H
           /\ H # {} => pos <= first
           /\ ScanSucceeded
              => /\ H # {}
                 /\ pos = first
                 /\ tarValues.Name = NameAt(pos)
                 /\ tarValues.Values = ValuesAt(pos)
           /\ (Done /\ H # {} /\ Readable(first))
              => ScanSucceeded

\* the scan stopped at the second entry; the third, which does not parse,
\* and the damaged end of the stream were never read
C8_Witness ==
    /\ Done /\ exitCode = 0
    /\ Len(Archive) = 3 /\ pos = 2
    /\ IsChart(Archive[3]) /\ ~Parses(Archive[3])
    /\ tarball.end = "badheader"

\* the scan passed a chart entry with an empty name and a values entry, and
\* stopped at a later chart entry
C8_WitnessEmptyName ==
    /\ ScanSucceeded
    /\ Len(Archive) = 3 /\ pos = 3
    /\ IsChart(Archive[1]) /\ DeclaredName(Archive[1]) = ""
    /\ IsValues(Archive[2]) /\ Archive[2].body # << >>
    /\ IsChart(Archive[3])

(***************************************************************************)
(* C9: no file handle is open when the process ends, nor between the calls *)
(* main makes: every return of getTarValues, writeApbYaml and              *)
(* writeDockerfile has closed the file the function opened.  Inside a      *)
(* function exactly the file it opened is open.                            *)
(***************************************************************************)
C9_HandlesClosed ==
    /\ Done => handles = {}
    /\ pc \in {"main", "run", "getTarValues", "writeApbYaml", "writeDockerfile"}
       => handles = {}
    /\ pc \in {"gzip", "scan"} => handles = {args[1]}
    /\ pc = "writeApbYaml.Write" => handles = {apbYml}
    /\ pc = "writeDockerfile.Execute" => handles = {dockerfile}

\* all three files were opened and the last write failed
C9_Witness ==
    /\ Done /\ exitCode = 1 /\ Printed(ErrWrite)
    /\ calls = <<"getTarValues", "writeApbYaml", "writeDockerfile">>
    /\ touched = Files
    /\ handles = {}

IsPrefix(a, b) == Len(a) <= Len(b) /\ a = SubSeq(b, 1, Len(a))
ExpectedCalls ==
    (IF forceArg THEN << >> ELSE <<"fileExists">>)
        \o <<"getTarValues", "writeApbYaml", "writeDockerfile">>

(***************************************************************************)
(* C10: main calls fileExists (only without --force), getTarValues,        *)
(* writeApbYaml, writeDockerfile in this order; an output file is created  *)
(* or truncated only after getTarValues returned a TarValues, and a file   *)
(* the run has not created is as it was; the archive is read without       *)
(* --force only when neither output file was there.                        *)
(***************************************************************************)
C10_Order ==
    /\ pc = "main" => calls = << >>
    /\ pc # "main" /\ Len(args) = 1 => IsPrefix(calls, ExpectedCalls)
    /\ pc \notin {"main", "run"} /\ Len(args) = 1 /\ ~forceArg
       => Len(calls) >= 1 /\ calls[1] = "fileExists"
    /\ touched # {}
       => /\ ScanSucceeded
          /\ tarValues.Name # "" /\ tarValues.Values # << >>
    /\ \A f \in Files \ touched : fs[f] = fsStart[f]
    /\ Done /\ ~ScanSucceeded => fs = fsStart
    /\ ~forceArg /\ Called("getTarValues") => NothingThere

\* with --force and both files there, the archive read failed and the files
\* are as they were
C10_Witness ==
    /\ Done /\ forceArg /\ exitCode = 1
    /\ \A f \in Files : fsStart[f].exists
    /\ calls = <<"getTarValues">>
    /\ Printed(ErrRead)
    /\ fs = fsStart

====
